---- MODULE Spec2Model ----
(***************************************************************************)
(* Model of key_analysis.py: the range classifier and report loop of       *)
(* main(), the group builder get_groups() and the group locator            *)
(* find_group_index().                                                      *)
(*                                                                         *)
(* Python lists are TLA+ sequences.  Python indices are 0-based, so the    *)
(* Python element a[j] is the TLA+ element a[j + 1]; every index that the  *)
(* code computes or returns (pos, the result of find_group_index) keeps    *)
(* its 0-based Python value.                                               *)
(***************************************************************************)
EXTENDS Integers, Sequences, FiniteSets

VARIABLES nums, pc, i, low, high, k, gap, groups, gaps, total, err, x, page, res

vars == <<nums, pc, i, low, high, k, gap, groups, gaps, total, err, x, page, res>>

(* ---------------------------- constants -------------------------------- *)

CUTOFF == 65536

MAX_DISTS == <<1, 2, 4, 8, 16, 32, 64>>

NotFound == -1

(* ------------------------------ bounds --------------------------------- *)

MaxLen == 3

MaxSeqLen == 4

MaxVal == 5

MaxGapTol == 3

MaxPage == 4

(* Raw keys fed to main(): two low keys, valid high keys whose scaled      *)
(* distances are 1, 2, 3, 63, 65 and 66, and one high key that is not a    *)
(* multiple of 4.                                                          *)
Keys == {3, CUTOFF - 1, CUTOFF, CUTOFF + 1, CUTOFF + 4, CUTOFF + 12, CUTOFF + 264}

SeqsUpTo(S, n) == UNION {[1..m -> S] : m \in 0..n}

IsAscending(s) == \A j \in 1..(Len(s) - 1) : s[j] <= s[j + 1]

AscendingSeqs(S, n) == {s \in SeqsUpTo(S, n) : IsAscending(s)}

(* ------------------------- get_groups (56-66) -------------------------- *)

Last(s) == s[Len(s)]

RECURSIVE get_groups_loop_ge(_, _, _)
get_groups_loop_ge(gs, rest, g) ==
    IF rest = <<>> THEN gs
    ELSE LET y == Head(rest)
             last_group == Last(gs)
         IN  IF y - Last(last_group) >= g
             THEN get_groups_loop_ge(Append(gs, <<y>>), Tail(rest), g)
             ELSE get_groups_loop_ge([gs EXCEPT ![Len(gs)] = Append(last_group, y)],
                                     Tail(rest), g)

RECURSIVE get_groups_loop_lt(_, _, _)
get_groups_loop_lt(gs, rest, g) ==
    IF rest = <<>> THEN gs
    ELSE LET y == Head(rest)
             last_group == Last(gs)
         IN  IF y - Last(last_group) < g
             THEN get_groups_loop_lt(Append(gs, <<y>>), Tail(rest), g)
             ELSE get_groups_loop_lt([gs EXCEPT ![Len(gs)] = Append(last_group, y)],
                                     Tail(rest), g)

RECURSIVE get_groups_loop_drop(_, _, _)
get_groups_loop_drop(gs, rest, g) ==
    IF rest = <<>> THEN gs
    ELSE LET y == Head(rest)
             last_group == Last(gs)
         IN  IF y - Last(last_group) > g
             THEN get_groups_loop_drop(Append(gs, <<y>>), Tail(rest), g)
             ELSE get_groups_loop_drop([gs EXCEPT ![Len(gs)] = <<y>>],
                                       Tail(rest), g)

(* The for loop of get_groups: gs is the list built so far, rest the part  *)
(* of nums[1:] still to scan.                                              *)
RECURSIVE get_groups_loop(_, _, _)
get_groups_loop(gs, rest, g) ==
    IF rest = <<>> THEN gs
    ELSE LET y == Head(rest)
             last_group == Last(gs)
         IN  IF y - Last(last_group) > g
             THEN get_groups_loop(Append(gs, <<y>>), Tail(rest), g)
             ELSE get_groups_loop([gs EXCEPT ![Len(gs)] = Append(last_group, y)],
                                  Tail(rest), g)

(* get_groups on a non-empty list; on an empty list nums[0] raises         *)
(* IndexError, which the calling actions model.                            *)
get_groups(ns, g) == get_groups_loop(<< <<ns[1]>> >>, Tail(ns), g)

(* ---------------------- find_group_index (10-38) ----------------------- *)

Abs(n) == IF n < 0 THEN -n ELSE n

(* bisect.bisect_left(a, v, lo, hi), with 0-based lo and hi. *)
RECURSIVE bisect_loop(_, _, _, _)
bisect_loop(a, v, lo, hi) ==
    IF lo < hi
    THEN LET mid == (lo + hi) \div 2
         IN  IF a[mid + 1] < v
             THEN bisect_loop(a, v, mid + 1, hi)
             ELSE bisect_loop(a, v, lo, mid)
    ELSE lo

bisect_left(a, v) == bisect_loop(a, v, 0, Len(a))

SeqMin(s) == CHOOSE m \in {s[j] : j \in 1..Len(s)} : \A j \in 1..Len(s) : m <= s[j]

SeqMax(s) == CHOOSE m \in {s[j] : j \in 1..Len(s)} : \A j \in 1..Len(s) : m >= s[j]

find_group_index_le(gs, v, PAGE) ==
    IF gs = <<>> THEN NotFound
    ELSE LET starts == [j \in 1..Len(gs) |-> gs[j][1]]
             pos == bisect_left(starts, v)
             c1 == IF pos < Len(gs) /\ Abs(gs[pos + 1][1] - v) <= PAGE
                   THEN <<pos>> ELSE <<>>
             candidates == IF pos > 0 /\ Abs(gs[pos][1] - v) <= PAGE
                           THEN Append(c1, pos - 1) ELSE c1
         IN  IF candidates # <<>> THEN SeqMin(candidates) ELSE NotFound

find_group_index_noprev(gs, v, PAGE) ==
    IF gs = <<>> THEN NotFound
    ELSE LET starts == [j \in 1..Len(gs) |-> gs[j][1]]
             pos == bisect_left(starts, v)
             c1 == IF pos < Len(gs) /\ Abs(gs[pos + 1][1] - v) < PAGE
                   THEN <<pos>> ELSE <<>>
             candidates == IF pos > 1 /\ Abs(gs[pos][1] - v) < PAGE
                           THEN Append(c1, pos - 1) ELSE c1
         IN  IF candidates # <<>> THEN SeqMin(candidates) ELSE NotFound

find_group_index_max(gs, v, PAGE) ==
    IF gs = <<>> THEN NotFound
    ELSE LET starts == [j \in 1..Len(gs) |-> gs[j][1]]
             pos == bisect_left(starts, v)
             c1 == IF pos < Len(gs) /\ Abs(gs[pos + 1][1] - v) < PAGE
                   THEN <<pos>> ELSE <<>>
             candidates == IF pos > 0 /\ Abs(gs[pos][1] - v) < PAGE
                           THEN Append(c1, pos - 1) ELSE c1
         IN  IF candidates # <<>> THEN SeqMax(candidates) ELSE NotFound

find_group_index(gs, v, PAGE) ==
    IF gs = <<>> THEN NotFound
    ELSE LET starts == [j \in 1..Len(gs) |-> gs[j][1]]
             pos == bisect_left(starts, v)
             c1 == IF pos < Len(gs) /\ Abs(gs[pos + 1][1] - v) < PAGE
                   THEN <<pos>> ELSE <<>>
             candidates == IF pos > 0 /\ Abs(gs[pos][1] - v) < PAGE
                           THEN Append(c1, pos - 1) ELSE c1
         IN  IF candidates # <<>> THEN SeqMin(candidates) ELSE NotFound

(* --------------------------- main (69-97) ------------------------------ *)

scale_noshift(v) == (v - CUTOFF) \div 4

(* line 86: the value appended to high *)
scale(v) == CUTOFF + (v - CUTOFF) \div 4

assert_skipped(v) == TRUE

(* line 85: the condition of the assert *)
assert_ok(v) == v % 4 = 0

RECURSIVE group_gaps_nominus(_)
group_gaps_nominus(g) ==
    IF Len(g) < 2 THEN 0
    ELSE (g[2] - g[1]) + group_gaps_nominus(Tail(g))

(* lines 91-93 for one group g: sum of y - x - 1 over zip(g, g[1:]) *)
RECURSIVE group_gaps(_)
group_gaps(g) ==
    IF Len(g) < 2 THEN 0
    ELSE (g[2] - g[1] - 1) + group_gaps(Tail(g))

(* lines 90-94: the sum over all groups *)
RECURSIVE gap_sum(_)
gap_sum(gs) ==
    IF gs = <<>> THEN 0
    ELSE group_gaps(Head(gs)) + gap_sum(Tail(gs))

Init ==
    /\ nums \in SeqsUpTo(Keys, MaxLen)
    /\ pc = "classify"
    /\ i = 1
    /\ low = <<>>
    /\ high = <<>>
    /\ k = 1
    /\ groups = <<>>
    /\ gaps = 0
    /\ total = 0
    /\ err = "none"
    /\ gap = 0 /\ x = 0 /\ page = 0 /\ res = NotFound

ClassifyLow ==
    /\ pc = "classify"
    /\ i <= Len(nums)
    /\ nums[i] < CUTOFF
    /\ low' = Append(low, nums[i])
    /\ i' = i + 1
    /\ UNCHANGED <<nums, pc, high, k, gap, groups, gaps, total, err, x, page, res>>

ClassifyHigh ==
    /\ pc = "classify"
    /\ i <= Len(nums)
    /\ ~(nums[i] < CUTOFF)
    /\ assert_ok(nums[i])
    /\ high' = Append(high, scale(nums[i]))
    /\ i' = i + 1
    /\ UNCHANGED <<nums, pc, low, k, gap, groups, gaps, total, err, x, page, res>>

ClassifyAssertFail ==
    /\ pc = "classify"
    /\ i <= Len(nums)
    /\ ~(nums[i] < CUTOFF)
    /\ ~assert_ok(nums[i])
    /\ pc' = "failed"
    /\ err' = "AssertionError"
    /\ UNCHANGED <<nums, i, low, high, k, gap, groups, gaps, total, x, page, res>>

ClassifyDone ==
    /\ pc = "classify"
    /\ i > Len(nums)
    /\ pc' = "report"
    /\ UNCHANGED <<nums, i, low, high, k, gap, groups, gaps, total, err, x, page, res>>

(* One iteration of the report loop whose get_groups call succeeds. *)
ReportStep ==
    /\ pc = "report"
    /\ k <= Len(MAX_DISTS)
    /\ high # <<>>
    /\ LET max_dist == MAX_DISTS[k]
           gs == get_groups(high, max_dist)
           gp == gap_sum(gs)
           tt == Len(high) + gp
       IN  /\ gap' = max_dist
           /\ groups' = gs
           /\ gaps' = gp
           /\ total' = tt
           /\ IF tt = 0
              THEN /\ err' = "ZeroDivisionError"
                   /\ pc' = "failed"
                   /\ k' = k
              ELSE /\ err' = err
                   /\ k' = k + 1
                   /\ pc' = IF k = Len(MAX_DISTS) THEN "done" ELSE "report"
    /\ UNCHANGED <<nums, i, low, high, x, page, res>>

(* The first iteration of the report loop when high is empty: nums[0] in   *)
(* get_groups raises IndexError.                                           *)
ReportIndexError ==
    /\ pc = "report"
    /\ k <= Len(MAX_DISTS)
    /\ high = <<>>
    /\ gap' = MAX_DISTS[k]
    /\ err' = "IndexError"
    /\ pc' = "failed"
    /\ UNCHANGED <<nums, i, low, high, k, groups, gaps, total, x, page, res>>

Next ==
    \/ ClassifyLow
    \/ ClassifyHigh
    \/ ClassifyAssertFail
    \/ ClassifyDone
    \/ ReportStep
    \/ ReportIndexError

Spec == Init /\ [][Next]_vars

(* ---------------- get_groups called on its own (56-66) ----------------- *)

GapTols == -1..MaxGapTol

InitGroups ==
    /\ nums \in AscendingSeqs(0..MaxVal, MaxSeqLen)
    /\ gap \in GapTols
    /\ pc = "call"
    /\ i = 1 /\ low = <<>> /\ high = <<>> /\ k = 1
    /\ groups = <<>> /\ gaps = 0 /\ total = 0
    /\ err = "none"
    /\ x = 0 /\ page = 0 /\ res = NotFound

GetGroupsReturn ==
    /\ pc = "call"
    /\ nums # <<>>
    /\ groups' = get_groups(nums, gap)
    /\ pc' = "returned"
    /\ UNCHANGED <<nums, i, low, high, k, gap, gaps, total, err, x, page, res>>

(* line 57 on an empty list: nums[0] raises IndexError *)
GetGroupsIndexError ==
    /\ pc = "call"
    /\ nums = <<>>
    /\ err' = "IndexError"
    /\ pc' = "raised"
    /\ UNCHANGED <<nums, i, low, high, k, gap, groups, gaps, total, x, page, res>>

NextGroups ==
    \/ GetGroupsReturn
    \/ GetGroupsIndexError

SpecGroups == InitGroups /\ [][NextGroups]_vars

(* ------------- find_group_index called on its own (10-38) -------------- *)

QueryVals == -1..(MaxVal + 1)

Pages == 0..MaxPage

(* The group lists queried are the outputs of get_groups (their starts are *)
(* ascending, with equal starts when the tolerance is negative) and the    *)
(* empty list.                                                             *)
InitLocate ==
    /\ nums \in AscendingSeqs(0..MaxVal, MaxSeqLen)
    /\ gap \in GapTols
    /\ groups = IF nums = <<>> THEN <<>> ELSE get_groups(nums, gap)
    /\ x \in QueryVals
    /\ page \in Pages
    /\ pc = "query"
    /\ i = 1 /\ low = <<>> /\ high = <<>> /\ k = 1
    /\ gaps = 0 /\ total = 0
    /\ err = "none"
    /\ res = NotFound

Locate ==
    /\ pc = "query"
    /\ res' = find_group_index(groups, x, page)
    /\ pc' = "located"
    /\ UNCHANGED <<nums, i, low, high, k, gap, groups, gaps, total, err, x, page>>

NextLocate == Locate

SpecLocate == InitLocate /\ [][NextLocate]_vars

(* ======================= properties of get_groups ====================== *)

RECURSIVE Flatten(_)
Flatten(gs) == IF gs = <<>> THEN <<>> ELSE Head(gs) \o Flatten(Tail(gs))

RECURSIVE SumLen(_, _)
SumLen(gs, n) == IF n = 0 THEN 0 ELSE Len(gs[n]) + SumLen(gs, n - 1)

(* Positions p such that a group ends at S[p] and the next starts at S[p+1] *)
Boundaries(gs) == {SumLen(gs, n) : n \in 1..(Len(gs) - 1)}

(* C1: for a non-empty ascending input and any tolerance, get_groups       *)
(* returns at least one group, no group is empty, and the concatenation of *)
(* the groups in order is the input sequence itself.                       *)
C1_LosslessPartition ==
    pc = "returned" =>
        /\ groups # <<>>
        /\ \A j \in 1..Len(groups) : groups[j] # <<>>
        /\ Flatten(groups) = nums
        /\ SumLen(groups, Len(groups)) = Len(nums)

C1_Witness ==
    /\ pc = "returned"
    /\ Len(groups) >= 2
    /\ \E j \in 1..Len(groups) : Len(groups[j]) >= 2
    /\ Flatten(groups) = nums

(* C2: a group boundary lies between consecutive inputs a, b exactly when  *)
(* b - a > gap: adjacent groups A, B have B.first - A.last > gap, and      *)
(* consecutive elements of one group differ by at most gap, whatever the   *)
(* distance to the group's first element.                                  *)
C2_BoundaryIffGap ==
    pc = "returned" =>
        /\ \A j \in 1..(Len(groups) - 1) :
               groups[j + 1][1] - Last(groups[j]) > gap
        /\ \A j \in 1..Len(groups) : \A n \in 1..(Len(groups[j]) - 1) :
               groups[j][n + 1] - groups[j][n] <= gap
        /\ Boundaries(groups) =
               {p \in 1..(Len(nums) - 1) : nums[p + 1] - nums[p] > gap}

C2_Witness ==
    /\ pc = "returned"
    /\ gap >= 1
    /\ Len(groups) >= 2
    /\ \E j \in 1..Len(groups) : Last(groups[j]) - groups[j][1] > gap

(* C3: for a fixed input, a larger tolerance never yields more groups, and *)
(* every boundary under the larger tolerance is a boundary under the       *)
(* smaller one.                                                            *)
C3_ToleranceMonotone ==
    pc = "returned" =>
        \A g2 \in GapTols : g2 > gap =>
            /\ Len(get_groups(nums, g2)) <= Len(groups)
            /\ Boundaries(get_groups(nums, g2)) \subseteq Boundaries(groups)

C3_Witness ==
    /\ pc = "returned"
    /\ gap >= 1
    /\ \E g2 \in GapTols :
           /\ g2 > gap
           /\ Len(get_groups(nums, g2)) < Len(groups)
           /\ Len(get_groups(nums, g2)) >= 2

(* C9: get_groups on an empty sequence ends in a named EmptyInput          *)
(* condition or a documented empty group list, never in a raw index fault. *)
C9_EmptyInputNamed ==
    (nums = <<>> /\ pc # "call") =>
        \/ err = "EmptyInput"
        \/ (err = "none" /\ pc = "returned" /\ groups = <<>>)

(* ==================== properties of find_group_index =================== *)

Start(j) == groups[j][1]

Qualifies(j) == Abs(Start(j) - x) < page

GroupIdx == 1..Len(groups)

(* C4: the locator returns -1 exactly when no group's start is at distance *)
(* strictly less than PAGE from x, a returned index names such a group,    *)
(* and an empty group list yields -1.                                      *)
C4_FoundIffQualifies ==
    pc = "located" =>
        /\ (res = NotFound) <=> ~(\E j \in GroupIdx : Qualifies(j))
        /\ res # NotFound => (res + 1 \in GroupIdx /\ Qualifies(res + 1))
        /\ groups = <<>> => res = NotFound

C4_Witness ==
    /\ pc = "located"
    /\ page >= 1
    /\ Len(groups) >= 2
    /\ res = NotFound
    /\ \E j \in GroupIdx : Abs(Start(j) - x) = page

StartGapsAtLeast(d) == \A j \in 1..(Len(groups) - 1) : Start(j + 1) - Start(j) >= d

(* C5 as stated: when PAGE exceeds the minimum distance between the starts *)
(* of adjacent groups, querying a group's own start returns its index      *)
(* (groups built with a positive tolerance, so all starts are distinct).   *)
C5_OwnStartWhenPageExceeds ==
    (/\ pc = "located"
     /\ gap >= 1
     /\ Len(groups) >= 2
     /\ ~StartGapsAtLeast(page)) =>
        \A j \in GroupIdx : Start(j) = x => res = j - 1

(* C5 amended: when PAGE is at least 1 and does not exceed the minimum     *)
(* distance between the starts of adjacent groups, querying a group's own  *)
(* start returns its index.                                                *)
C5_OwnStartWhenPageFits ==
    (/\ pc = "located"
     /\ page >= 1
     /\ StartGapsAtLeast(page)) =>
        \A j \in GroupIdx : Start(j) = x => res = j - 1

C5_Witness ==
    /\ pc = "located"
    /\ page >= 1
    /\ Len(groups) >= 2
    /\ StartGapsAtLeast(page)
    /\ x = Start(2)
    /\ Start(2) - Start(1) = page
    /\ res = 1

(* C6 as stated: a returned index names a group whose start is at least as *)
(* close to x as every other group's start.                                *)
C6_ReturnsClosest ==
    (pc = "located" /\ res # NotFound) =>
        \A j \in GroupIdx : Abs(Start(j) - x) >= Abs(Start(res + 1) - x)

Below == {j \in GroupIdx : Start(j) < x}

(* C6 amended: a returned index names the last group whose start is below  *)
(* x whenever that start is within PAGE of x, even if a start at or above  *)
(* x is strictly closer; otherwise it names the first group whose start is *)
(* at or above x, and that start is then the closest of all.               *)
C6_ReturnsEarlierCandidate ==
    (pc = "located" /\ res # NotFound) =>
        IF \E j \in Below : Qualifies(j)
        THEN /\ res + 1 \in Below
             /\ \A j \in Below : j <= res + 1
        ELSE /\ res + 1 \in GroupIdx \ Below
             /\ \A j \in GroupIdx \ Below : j >= res + 1
             /\ \A j \in GroupIdx : Abs(Start(j) - x) >= Abs(Start(res + 1) - x)

C6_Witness ==
    /\ pc = "located"
    /\ res # NotFound
    /\ res + 1 \in Below
    /\ \E j \in GroupIdx \ Below :
           /\ Qualifies(j)
           /\ Abs(Start(j) - x) < Abs(Start(res + 1) - x)

(* ========================== properties of main ========================= *)

IsLowKey(v) == v < CUTOFF

IsHighKey(v) == v >= CUTOFF

Consumed == SubSeq(nums, 1, i - 1)

BadKeys == {j \in 1..Len(nums) : nums[j] >= CUTOFF /\ nums[j] % 4 # 0}

(* C7: when every value >= CUTOFF is a multiple of 4, low is the values    *)
(* below CUTOFF unchanged and in input order, high is the values >= CUTOFF *)
(* in input order, each mapped to CUTOFF + (value - CUTOFF) / 4 exactly;   *)
(* the lengths add up, every high output is >= CUTOFF, and an ascending    *)
(* input gives an ascending high.                                          *)
C7_Classification ==
    BadKeys = {} =>
        LET hs == SelectSeq(Consumed, IsHighKey)
        IN  /\ low = SelectSeq(Consumed, IsLowKey)
            /\ Len(high) = Len(hs)
            /\ \A j \in 1..Len(high) :
                   /\ 4 * (high[j] - CUTOFF) = hs[j] - CUTOFF
                   /\ high[j] >= CUTOFF
            /\ Len(low) + Len(high) = i - 1
            /\ pc # "classify" => i - 1 = Len(nums)
            /\ IsAscending(nums) => IsAscending(high)

C7_Witness ==
    /\ BadKeys = {}
    /\ pc = "report"
    /\ Len(nums) = 3
    /\ Len(low) = 1
    /\ Len(high) = 2
    /\ high[1] < high[2]
    /\ high[2] # nums[3]

(* C8: a value >= CUTOFF that is not a multiple of 4 stops the             *)
(* classification with an error at that value: the scan never moves past   *)
(* it, nothing is appended for it, no report step runs, and only such a    *)
(* value raises the error.                                                 *)
C8_InvalidHighKeyFatal ==
    /\ \A j \in BadKeys : i <= j
    /\ BadKeys # {} =>
           /\ pc \in {"classify", "failed"}
           /\ groups = <<>> /\ k = 1
           /\ Len(low) + Len(high) = i - 1
    /\ (pc = "classify" /\ i \in BadKeys) =>
           (ENABLED ClassifyAssertFail /\ ~ENABLED ClassifyHigh /\ ~ENABLED ClassifyLow)
    /\ (BadKeys # {} /\ pc = "failed") => (err = "AssertionError" /\ i \in BadKeys)
    /\ err = "AssertionError" => (pc = "failed" /\ i \in BadKeys)

C8_Witness ==
    /\ pc = "failed"
    /\ err = "AssertionError"
    /\ i = 3
    /\ Len(low) = 1
    /\ Len(high) = 1
    /\ groups = <<>>

(* C10: in the report loop, for a non-empty ascending high and each        *)
(* tolerance, total = len(high) + gaps is at least 1, so gaps / total does *)
(* not divide by zero, and gaps is at most                                 *)
(* (g - 1) * (len(high) - number of groups).                               *)
C10_ReportDenominator ==
    (groups # <<>> /\ IsAscending(high)) =>
        /\ total = Len(high) + gaps
        /\ total >= 1
        /\ err # "ZeroDivisionError"
        /\ gaps >= 0 - (Len(high) - Len(groups))
        /\ gaps <= (gap - 1) * (Len(high) - Len(groups))

C10_Witness ==
    /\ groups # <<>>
    /\ IsAscending(high)
    /\ Len(high) = 2
    /\ gaps = -1
    /\ total = 1
    /\ gap = 64

====
